---- MODULE Spec2Model ----
(***************************************************************************)
(* Model of the TUMAPS2 navigation page (src/src/app/page.tsx) and of its  *)
(* Mapbox gateway library (src/unnamed/part_000, imported as @/lib/mapbox). *)
(*                                                                         *)
(* The page is one React component.  Its state is the NavigationState      *)
(* record plus five further useState cells and one ref.  Every handler     *)
(* runs to completion; an async handler (handleSearch) is cut at its       *)
(* awaits, one action per continuation.  The position-watch effect is an   *)
(* action of its own that React runs after a render in which one of its    *)
(* dependencies changed.                                                   *)
(***************************************************************************)
EXTENDS Integers, Sequences, FiniteSets, Bags, TLC

VARIABLES
    state,            \* NavigationState (useState, page.tsx 41-50)
    originInput,      \* page.tsx 52
    destinationInput, \* page.tsx 53
    isVoiceEnabled,   \* page.tsx 54
    isLoading,        \* page.tsx 55
    showRoutes,       \* page.tsx 56
    watchIdRef,       \* watchIdRef.current (page.tsx 58); NullId for null
    watches,          \* the browser's active position watches: id -> closure
    effectPending,    \* a dependency of the watch effect changed since it ran
    mounted,          \* the component is mounted
    initPosPending,   \* the mount-time getCurrentPosition has not answered
    search,           \* the bag of handleSearch invocations in flight
    announced,        \* the speakInstruction calls of the latest handler
    sinceReset,       \* history: a reset happened and no search was triggered since
    soloSearch,       \* history: the latest search began in Idle with none in flight
    gwData,           \* library specifications: the answer or number handed in
    gwResult          \* library specifications: what the library call returned

vars == <<state, originInput, destinationInput, isVoiceEnabled, isLoading,
          showRoutes, watchIdRef, watches, effectPending, mounted,
          initPosPending, search, announced, sinceReset, soloSearch, gwData, gwResult>>

pageVars == <<state, originInput, destinationInput, isVoiceEnabled, isLoading,
              showRoutes, watchIdRef, watches, effectPending, mounted,
              initPosPending, search, announced, sinceReset, soloSearch>>

gwVars == <<gwData, gwResult>>

----------------------------------------------------------------------------
(* Bounds of the model *)

\* handleSearch invocations that may be in flight at once
MaxSearches == 2

\* routes in one directions response
MaxRoutes == 2

\* steps in the first leg of a remote route
MaxSteps == 2

\* position watches the browser may hold at once
MaxWatches == 2

\* the largest number of meters or of seconds handed to a formatter
MaxQuantity == 12345

----------------------------------------------------------------------------
(* Values *)

\* JavaScript null, for the nullable object fields
Null == [null |-> TRUE]

\* null of watchIdRef (watch ids of the browser are positive)
NullId == 0

\* the ids of the watches the browser holds
WatchIds == 1..MaxWatches

\* The browser never hands out an id twice, so an id whose watch was cleared
\* names nothing any more: the model writes every such id ClearedId.
ClearedId == MaxWatches + 1

\* Coordinates.  lat counts units of 1e-4 degree; every point of the model
\* lies on the meridian lng = 0.
Coord(lat) == [lng |-> 0, lat |-> lat]

\* what the geocoder may answer
GeoCoords == {Coord(0), Coord(10)}

\* where the device may be
DeviceCoords == {Coord(4), Coord(5)}

\* the text a user may have typed into an address input
Addresses == {"Av. Paulista"}

Instructions == {"Siga em frente", "Vire a esquerda"}

Abs(n) == IF n < 0 THEN -n ELSE n

SeqsUpTo(S, n) == UNION {[1..k -> S] : k \in 0..n}

----------------------------------------------------------------------------
(* The gateway library (src/unnamed/part_000) *)

\* fetch or response.json() threw
FetchFailed == [error |-> "Failed to fetch"]

\* a JSON answer of the directions service that carries no routes field
NoRoutesField == [code |-> "InvalidInput", message |-> "Not Found"]

\* one step of a leg, as the directions service sends it
RemoteStep(instruction) ==
    [distance |-> 120, duration |-> 30,
     maneuver |-> [instruction |-> instruction, type |-> "turn",
                   modifier |-> "left"]]

RemoteStepLists == SeqsUpTo({RemoteStep(i) : i \in Instructions}, MaxSteps)

\* one route, as the directions service sends it: its first leg carries steps
RemoteRoute(steps) ==
    [distance |-> 1500, duration |-> 300,
     geometry |-> [coordinates |-> <<<<0, 0>>, <<0, 10>>>>],
     legs |-> <<[steps |-> steps]>>]

RemoteRoutes == {RemoteRoute(steps) : steps \in RemoteStepLists}

\* every answer a directions fetch may get
DirectionsResponses ==
    {FetchFailed, NoRoutesField}
        \cup {[routes |-> rs] : rs \in SeqsUpTo(RemoteRoutes, MaxRoutes)}

\* the answers the page model draws from: the first legs of one answer carry
\* the same list of steps, the empty one or one step
PageDirectionsResponses ==
    {d \in DirectionsResponses :
        "routes" \in DOMAIN d =>
            \E steps \in {<<>>, <<RemoteStep("Siga em frente")>>} :
                \A k \in 1..Len(d.routes) : d.routes[k].legs[1].steps = steps}

\* steps.map of getDirections, lines 31-39
MapStep(step) ==
    [instruction |-> step.maneuver.instruction,
     distance |-> step.distance,
     duration |-> step.duration,
     maneuver |-> [type |-> step.maneuver.type,
                   modifier |-> step.maneuver.modifier]]

\* mutant of MapRoute: ids count from one
MapRouteFromOne(route, index) ==
    [id |-> "route-" \o ToString(index + 1),
     distance |-> route.distance,
     duration |-> route.duration,
     geometry |-> route.geometry,
     steps |-> [k \in 1..Len(route.legs[1].steps) |->
                    MapStep(route.legs[1].steps[k])],
     isAlternative |-> index > 0]

\* routes.map of getDirections, lines 26-41; index is the JavaScript index
MapRoute(route, index) ==
    [id |-> "route-" \o ToString(index),
     distance |-> route.distance,
     duration |-> route.duration,
     geometry |-> route.geometry,
     steps |-> [k \in 1..Len(route.legs[1].steps) |->
                    MapStep(route.legs[1].steps[k])],
     isAlternative |-> index > 0]

\* getDirections on the answer `data` of its fetch
getDirections(data) ==
    IF data = FetchFailed
    THEN <<>>
    ELSE IF "routes" \in DOMAIN data /\ Len(data.routes) > 0
         THEN [k \in 1..Len(data.routes) |-> MapRoute(data.routes[k], k - 1)]
         ELSE <<>>

\* every answer a forward-geocoding fetch may get
GeocodeResponses ==
    {FetchFailed, [features |-> <<>>]}
        \cup {[features |-> <<[center |-> <<c.lng, c.lat>>]>>] : c \in GeoCoords}

\* mutant of geocodeAddress: the failure of the fetch reaches the caller
geocodeAddressRethrows(data) ==
    IF data = FetchFailed
    THEN [thrown |-> "Failed to fetch"]
    ELSE IF "features" \in DOMAIN data /\ Len(data.features) > 0
         THEN [lng |-> data.features[1].center[1],
               lat |-> data.features[1].center[2]]
         ELSE Null

\* geocodeAddress on the answer `data` of its fetch
geocodeAddress(data) ==
    IF data = FetchFailed
    THEN Null
    ELSE IF "features" \in DOMAIN data /\ Len(data.features) > 0
         THEN [lng |-> data.features[1].center[1],
               lat |-> data.features[1].center[2]]
         ELSE Null

\* a JSON answer of the geocoding service that carries no features field
NoFeaturesField == [message |-> "Not Authorized - Invalid Token"]

\* the sentinel of reverseGeocode, 'Localizacao desconhecida' (lines 83, 86)
UnknownLocation == "Localizacao desconhecida"

\* every answer a reverse-geocoding fetch may get
ReverseGeocodeResponses ==
    {FetchFailed, NoFeaturesField, [features |-> <<>>]}
        \cup {[features |-> <<[place_name |-> a]>>] : a \in Addresses}

\* reverseGeocode on the answer `data` of its fetch
reverseGeocode(data) ==
    IF data = FetchFailed
    THEN UnknownLocation
    ELSE IF "features" \in DOMAIN data /\ Len(data.features) > 0
         THEN data.features[1].place_name
         ELSE UnknownLocation

\* 2^e modulo n
RECURSIVE PowerOfTwoMod(_, _)
PowerOfTwoMod(e, n) ==
    IF e = 0 THEN 1 % n ELSE (2 * PowerOfTwoMod(e - 1, n)) % n

\* the binary exponent j of meters / 1000 >= 1: 2^j <= meters / 1000 < 2^(j+1)
RECURSIVE Binade(_)
Binade(meters) == IF meters < 2000 THEN 0 ELSE 1 + Binade(meters \div 2)

\* meters / 1000 is a double: k / 2^e with e = 52 - Binade(meters) and k the
\* whole number nearest to meters * 2^e / 1000.  The remainder of
\* meters * 2^e by 1000 tells how k was rounded: 0 for an exact quotient, below
\* 500 for a double below the quotient, above 500 for one above it (500
\* itself cannot occur, meters * 2^e being a multiple of 8).
DivisionRemainder(meters) ==
    (meters * PowerOfTwoMod(52 - Binade(meters), 1000)) % 1000

\* the double meters / 1000 is not below the real quotient
DoubleNotBelow(meters) ==
    LET r == DivisionRemainder(meters) IN r = 0 \/ r > 500

\* The tenths that (meters / 1000).toFixed(1) prints.  toFixed rounds the
\* value of the double, ties upwards; only where the real quotient lies
\* halfway between two tenths (meters = 50 modulo 100) does the error of the
\* division decide the digit.
ToFixedTenths(meters) ==
    IF meters % 100 = 50
    THEN (meters \div 100) + (IF DoubleNotBelow(meters) THEN 1 ELSE 0)
    ELSE (meters + 50) \div 100

\* formatDistance on a whole number of meters, lines 90-95
formatDistance(meters) ==
    IF meters < 1000
    THEN ToString(meters) \o " m"
    ELSE LET tenths == ToFixedTenths(meters)
         IN  ToString(tenths \div 10) \o "." \o ToString(tenths % 10) \o " km"

\* mutant of formatDuration: the minutes are not reduced by the hours
formatDurationAllMinutes(seconds) ==
    LET hours == seconds \div 3600
        minutes == seconds \div 60
    IN  IF hours > 0
        THEN ToString(hours) \o "h " \o ToString(minutes) \o "min"
        ELSE ToString(minutes) \o " min"

\* formatDuration on a whole number of seconds, lines 97-105
formatDuration(seconds) ==
    LET hours == seconds \div 3600
        minutes == (seconds % 3600) \div 60
    IN  IF hours > 0
        THEN ToString(hours) \o "h " \o ToString(minutes) \o "min"
        ELSE ToString(minutes) \o " min"

\* millimetres of great circle per 1e-4 degree: R * pi / 180 * 1e-4, R = 6371e3 m
MmPerUnit == 11119

\* calculateDistance in millimetres.  On one meridian the haversine formula
\* gives a = sin^2(dphi/2) and c = |dphi|, so the distance is R * |dphi|.
calculateDistance(coord1, coord2) == Abs(coord2.lat - coord1.lat) * MmPerUnit

\* the literal 50 (meters) of the arrival test, in millimetres: 50 * 1000
ArrivalRadius == 50

ArrivalRadiusMm == ArrivalRadius * 1000

----------------------------------------------------------------------------
(* The page (src/src/app/page.tsx) *)

\* the argument of useState<NavigationState>
InitialNavigationState ==
    [origin |-> Null, destination |-> Null, currentLocation |-> Null,
     routes |-> <<>>, selectedRoute |-> Null, isNavigating |-> FALSE,
     currentStepIndex |-> 0, isDarkMode |-> FALSE]

\* the dependency list of the watch effect
Deps(s) == <<s.isNavigating, s.selectedRoute, s.currentStepIndex>>

\* what the watchPosition callback reads from the render it was created in
Closure(s, voice) ==
    [origin |-> s.origin, destination |-> s.destination,
     selectedRoute |-> s.selectedRoute,
     currentStepIndex |-> s.currentStepIndex, isVoiceEnabled |-> voice]

\* the session holds nothing: no endpoints, no routes, not navigating
Idle(s) ==
    /\ s.origin = Null /\ s.destination = Null
    /\ s.routes = <<>> /\ s.selectedRoute = Null
    /\ ~s.isNavigating

\* mutant of StopUpdater: the selected route is not cleared
StopUpdaterKeepsSelection(prev) ==
    [prev EXCEPT !.isNavigating = FALSE, !.currentStepIndex = 0,
                 !.routes = <<>>, !.origin = Null, !.destination = Null]

\* mutant of StopUpdater: the route list is not cleared
StopUpdaterKeepsRoutes(prev) ==
    [prev EXCEPT !.isNavigating = FALSE, !.currentStepIndex = 0,
                 !.selectedRoute = Null,
                 !.origin = Null, !.destination = Null]

\* the updater handleStopNavigation hands to setState
StopUpdater(prev) ==
    [prev EXCEPT !.isNavigating = FALSE, !.currentStepIndex = 0,
                 !.routes = <<>>, !.selectedRoute = Null,
                 !.origin = Null, !.destination = Null]

\* handleStopNavigation, applied to the state `s` the earlier updaters of the
\* same handler have produced
handleStopNavigation(s) ==
    /\ state' = StopUpdater(s)
    /\ showRoutes' = FALSE
    /\ originInput' = ""
    /\ destinationInput' = ""

\* mutant of StartUpdater: navigation starts at the second step
StartUpdaterSkipsStep(prev) ==
    [prev EXCEPT !.isNavigating = TRUE, !.currentStepIndex = 1]

\* the updater handleStartNavigation hands to setState
StartUpdater(prev) == [prev EXCEPT !.isNavigating = TRUE, !.currentStepIndex = 0]

\* mutant of StartAnnouncement: the voice toggle is not consulted
StartAnnouncementIgnoresVoice(s, voice) ==
    IF Len(s.selectedRoute.steps) > 0
    THEN <<s.selectedRoute.steps[1].instruction>>
    ELSE <<>>

\* the speakInstruction calls of handleStartNavigation
StartAnnouncement(s, voice) ==
    IF voice /\ Len(s.selectedRoute.steps) > 0
    THEN <<s.selectedRoute.steps[1].instruction>>
    ELSE <<>>

\* handleStartNavigation
handleStartNavigation ==
    IF state.selectedRoute = Null
    THEN UNCHANGED <<state, announced>>
    ELSE /\ state' = StartUpdater(state)
         /\ announced' = StartAnnouncement(state, isVoiceEnabled)

\* mutant of SelectUpdater: the list is narrowed to the selected route
SelectUpdaterNarrowsList(prev, route) ==
    [prev EXCEPT !.selectedRoute = route, !.routes = <<route>>]

\* the updater handleSelectRoute hands to setState
SelectUpdater(prev, route) == [prev EXCEPT !.selectedRoute = route]

\* the first updater of handleSearch, lines 133-137
EndpointsUpdater(prev, originCoords, destCoords) ==
    [prev EXCEPT !.origin = originCoords, !.destination = destCoords]

\* mutant of RoutesUpdater: the last route is selected, not the first
RoutesUpdaterSelectsLast(prev, routes) ==
    [prev EXCEPT !.routes = routes,
                 !.selectedRoute = IF Len(routes) > 0 THEN routes[Len(routes)]
                                   ELSE Null]

\* the second updater of handleSearch, lines 141-145
RoutesUpdater(prev, routes) ==
    [prev EXCEPT !.routes = routes,
                 !.selectedRoute = IF Len(routes) > 0 THEN routes[1] ELSE Null]

\* mutant of BothGeocoded: only the destination is tested
OnlyDestinationGeocoded(originCoords, destCoords) == destCoords # Null

\* the test of line 132
BothGeocoded(originCoords, destCoords) ==
    originCoords # Null /\ destCoords # Null

\* React schedules the watch effect when a dependency differs from the last render
Schedule(new) == effectPending' = (effectPending \/ Deps(new) # Deps(state))

\* a handleSearch invocation at one of its awaits
Invocation(pc, originCoords, destCoords) ==
    [pc |-> pc, originCoords |-> originCoords, destCoords |-> destCoords]

\* the invocations in flight
InFlight == BagToSet(search)

\* the invocation r moves on to r2
Resume(r, r2) == search' = (search (-) SetToBag({r})) (+) SetToBag({r2})

\* mutant of Finish: the handler that ends starts over
FinishRetries(r) ==
    search' = (search (-) SetToBag({r}))
                 (+) SetToBag({Invocation("geocodeOrigin", Null, Null)})

\* the invocation r ends
Finish(r) == search' = search (-) SetToBag({r})

----------------------------------------------------------------------------
(* User events.  React flushes the pending effects before it dispatches a   *)
(* discrete event, so none of them meets a pending watch effect.            *)

UserEvent == mounted /\ ~effectPending

\* the inputs are disabled while navigating
TypeOrigin(text) ==
    /\ UserEvent /\ ~state.isNavigating
    /\ text # originInput
    /\ originInput' = text
    /\ announced' = <<>>
    /\ UNCHANGED <<state, destinationInput, isVoiceEnabled, isLoading,
                   showRoutes, watchIdRef, watches, effectPending, mounted,
                   initPosPending, search, sinceReset, soloSearch, gwVars>>

TypeDestination(text) ==
    /\ UserEvent /\ ~state.isNavigating
    /\ text # destinationInput
    /\ destinationInput' = text
    /\ announced' = <<>>
    /\ UNCHANGED <<state, originInput, isVoiceEnabled, isLoading,
                   showRoutes, watchIdRef, watches, effectPending, mounted,
                   initPosPending, search, sinceReset, soloSearch, gwVars>>

\* handleSearch up to its first await: the early return, setIsLoading(true)
\* and the request of geocodeAddress(originInput)
handleSearch ==
    /\ originInput # "" /\ destinationInput # ""
    /\ BagCardinality(search) < MaxSearches
    /\ search' = search (+) SetToBag({Invocation("geocodeOrigin", Null, Null)})
    /\ isLoading' = TRUE
    /\ sinceReset' = FALSE
    /\ soloSearch' = (Idle(state) /\ InFlight = {})
    /\ announced' = <<>>
    /\ UNCHANGED <<state, originInput, destinationInput, isVoiceEnabled,
                   showRoutes, watchIdRef, watches, effectPending, mounted,
                   initPosPending, gwVars>>

\* the search button: shown while not navigating, disabled while loading or
\* while an input is empty
ClickSearch ==
    /\ UserEvent /\ ~state.isNavigating
    /\ ~(isLoading \/ originInput = "" \/ destinationInput = "")
    /\ handleSearch

\* Enter in either input: enabled while not navigating, whatever isLoading
PressEnter ==
    /\ UserEvent /\ ~state.isNavigating
    /\ handleSearch

\* the route list is rendered under showRoutes && routes.length > 0 && !isNavigating
RouteListShown == showRoutes /\ Len(state.routes) > 0 /\ ~state.isNavigating

\* handleSelectRoute(state.routes[k]) from the k-th button of the list
ClickRoute(k) ==
    /\ UserEvent /\ RouteListShown
    /\ k \in 1..Len(state.routes)
    /\ LET new == SelectUpdater(state, state.routes[k])
       IN  /\ new # state
           /\ state' = new
           /\ Schedule(new)
    /\ announced' = <<>>
    /\ UNCHANGED <<originInput, destinationInput, isVoiceEnabled, isLoading,
                   showRoutes, watchIdRef, watches, mounted, initPosPending,
                   search, sinceReset, soloSearch, gwVars>>

\* the start button is part of the route list
ClickStart ==
    /\ UserEvent /\ RouteListShown
    /\ handleStartNavigation
    /\ Schedule(state')
    /\ UNCHANGED <<originInput, destinationInput, isVoiceEnabled, isLoading,
                   showRoutes, watchIdRef, watches, mounted, initPosPending,
                   search, sinceReset, soloSearch, gwVars>>

\* mutant of StopButtonShown: the button is also shown over the route list
StopButtonShownWithRoutes == state.isNavigating \/ Len(state.routes) > 0

\* the stop button replaces the search button while navigating
StopButtonShown == state.isNavigating

ClickStop ==
    /\ UserEvent /\ StopButtonShown
    /\ handleStopNavigation(state)
    /\ Schedule(state')
    /\ sinceReset' = TRUE
    /\ announced' = <<>>
    /\ UNCHANGED <<isVoiceEnabled, isLoading, watchIdRef, watches, mounted,
                   initPosPending, search, soloSearch, gwVars>>

toggleDarkMode ==
    /\ UserEvent
    /\ state' = [state EXCEPT !.isDarkMode = ~state.isDarkMode]
    /\ announced' = <<>>
    /\ UNCHANGED <<originInput, destinationInput, isVoiceEnabled, isLoading,
                   showRoutes, watchIdRef, watches, effectPending, mounted,
                   initPosPending, search, sinceReset, soloSearch, gwVars>>

\* the onClick of the voice button, line 469
ToggleVoice ==
    /\ UserEvent
    /\ isVoiceEnabled' = ~isVoiceEnabled
    /\ announced' = <<>>
    /\ UNCHANGED <<state, originInput, destinationInput, isLoading,
                   showRoutes, watchIdRef, watches, effectPending, mounted,
                   initPosPending, search, sinceReset, soloSearch, gwVars>>

----------------------------------------------------------------------------
(* Continuations of handleSearch.  After the component unmounted React      *)
(* drops every state update, the requests go on.                            *)

\* line 129 resolves: originCoords is set and geocodeAddress(destinationInput)
\* is requested
GeocodeOriginAnswer(r, data) ==
    /\ r \in InFlight /\ r.pc = "geocodeOrigin"
    /\ Resume(r, Invocation("geocodeDest", geocodeAddress(data), Null))
    /\ announced' = <<>>
    /\ UNCHANGED <<state, originInput, destinationInput, isVoiceEnabled,
                   isLoading, showRoutes, watchIdRef, watches, effectPending,
                   mounted, initPosPending, sinceReset, soloSearch, gwVars>>

\* line 130 resolves: with both coordinates the endpoints are stored and
\* getDirections is requested; otherwise the handler ends in its finally
GeocodeDestinationAnswer(r, data) ==
    /\ r \in InFlight /\ r.pc = "geocodeDest"
    /\ LET originCoords == r.originCoords
           destCoords == geocodeAddress(data)
       IN  IF BothGeocoded(originCoords, destCoords)
           THEN /\ state' = IF mounted
                            THEN EndpointsUpdater(state, originCoords, destCoords)
                            ELSE state
                /\ Resume(r, Invocation("directions", originCoords, destCoords))
                /\ UNCHANGED isLoading
           ELSE /\ Finish(r)
                /\ isLoading' = IF mounted THEN FALSE ELSE isLoading
                /\ UNCHANGED state
    /\ announced' = <<>>
    /\ UNCHANGED <<originInput, destinationInput, isVoiceEnabled, showRoutes,
                   watchIdRef, watches, effectPending, mounted,
                   initPosPending, sinceReset, soloSearch, gwVars>>

\* line 139 resolves: the routes are stored, the first is selected, the list
\* is shown, and the handler ends in its finally.  A non-empty answer selects
\* a new object, which React sees as a changed dependency.
DirectionsAnswer(r, data) ==
    /\ r \in InFlight /\ r.pc = "directions"
    /\ LET routes == getDirections(data)
       IN  /\ state' = IF mounted THEN RoutesUpdater(state, routes) ELSE state
           /\ effectPending' =
                (effectPending
                    \/ (mounted /\ (Len(routes) > 0 \/ state.selectedRoute # Null)))
    /\ showRoutes' = IF mounted THEN TRUE ELSE showRoutes
    /\ isLoading' = IF mounted THEN FALSE ELSE isLoading
    /\ Finish(r)
    /\ announced' = <<>>
    /\ UNCHANGED <<originInput, destinationInput, isVoiceEnabled, watchIdRef,
                   watches, mounted, initPosPending, sinceReset, soloSearch,
                   gwVars>>

----------------------------------------------------------------------------
(* The position watch *)

\* navigator.geolocation.clearWatch(id) on the browser's watches
clearWatch(ws, id) == [w \in WatchIds |-> IF w = id THEN Null ELSE ws[w]]

\* mutant of WatchCleanup: the watch is left running
WatchCleanupSkips(ws, ref) == ws

\* the cleanup the effect returns, lines 117-121
WatchCleanup(ws, ref) == IF ref # NullId THEN clearWatch(ws, ref) ELSE ws

\* the id the ref holds, written ClearedId once its watch is gone
Renamed(ws, ref) ==
    IF ref \in WatchIds /\ ws[ref] = Null THEN ClearedId ELSE ref

\* the test of line 85
ShouldWatch(s) == s.isNavigating /\ s.selectedRoute # Null

\* the watch effect: the cleanup of its previous run, then its body.  The
\* browser hands out an id it does not hold: the model takes the least.
WatchEffect ==
    /\ mounted /\ effectPending
    /\ LET cleared == WatchCleanup(watches, watchIdRef)
       IN  IF ShouldWatch(state)
           THEN \E id \in WatchIds :
                    /\ cleared[id] = Null
                    /\ \A j \in WatchIds : j < id => cleared[j] # Null
                    /\ watches' = [cleared EXCEPT
                                     ![id] = Closure(state, isVoiceEnabled)]
                    /\ watchIdRef' = id
           ELSE /\ watches' = cleared
                /\ watchIdRef' = Renamed(cleared, watchIdRef)
    /\ effectPending' = FALSE
    /\ announced' = <<>>
    /\ UNCHANGED <<state, originInput, destinationInput, isVoiceEnabled,
                   isLoading, showRoutes, mounted, initPosPending, search,
                   sinceReset, soloSearch, gwVars>>

\* the arrival test of the callback, lines 96-102, on the values `c` the
\* callback closed over
Arrived(c, newLocation) ==
    /\ c.origin # Null /\ c.destination # Null
    /\ c.currentStepIndex < Len(c.selectedRoute.steps)
    /\ calculateDistance(newLocation, c.destination) < ArrivalRadiusMm

\* the text of line 105, without its diacritics
ArrivalText == "Voce chegou ao seu destino!"

\* the success callback of watch w, lines 87-111
PositionUpdate(w, newLocation) ==
    /\ mounted /\ watches[w] # Null
    /\ LET c == watches[w]
           located == [state EXCEPT !.currentLocation = newLocation]
       IN  IF Arrived(c, newLocation)
           THEN /\ announced' = IF c.isVoiceEnabled THEN <<ArrivalText>> ELSE <<>>
                /\ handleStopNavigation(located)
                /\ sinceReset' = TRUE
           ELSE /\ state' = located
                /\ announced' = <<>>
                /\ UNCHANGED <<showRoutes, originInput, destinationInput,
                               sinceReset>>
    /\ Schedule(state')
    /\ UNCHANGED <<isVoiceEnabled, isLoading, watchIdRef, watches, mounted,
                   initPosPending, search, soloSearch, gwVars>>

\* the success callback of the mount-time getCurrentPosition, lines 71-77
InitialPosition(coords) ==
    /\ mounted /\ initPosPending
    /\ state' = [state EXCEPT !.currentLocation = coords]
    /\ initPosPending' = FALSE
    /\ announced' = <<>>
    /\ UNCHANGED <<originInput, destinationInput, isVoiceEnabled, isLoading,
                   showRoutes, watchIdRef, watches, effectPending, mounted,
                   search, sinceReset, soloSearch, gwVars>>

\* The component unmounts: React runs the cleanup of the watch effect and
\* discards the component's cells, which the model writes as their
\* construction values.  The searches in flight go on.
Unmount ==
    /\ mounted
    /\ mounted' = FALSE
    /\ watches' = WatchCleanup(watches, watchIdRef)
    /\ state' = InitialNavigationState
    /\ originInput' = ""
    /\ destinationInput' = ""
    /\ isVoiceEnabled' = TRUE
    /\ isLoading' = FALSE
    /\ showRoutes' = FALSE
    /\ watchIdRef' = NullId
    /\ effectPending' = FALSE
    /\ initPosPending' = FALSE
    /\ announced' = <<>>
    /\ sinceReset' = FALSE
    /\ soloSearch' = FALSE
    /\ UNCHANGED <<search, gwVars>>

----------------------------------------------------------------------------
(* The page specification *)

\* no gateway call under observation
NotCalled == [called |-> FALSE]

\* the component after its mount: the dark-mode effect (lines 61-65) has set
\* isDarkMode from the hour, the watch effect has run and registered nothing,
\* getCurrentPosition is asked
PageInit ==
    /\ state \in {[InitialNavigationState EXCEPT !.isDarkMode = shouldBeDark] :
                    shouldBeDark \in BOOLEAN}
    /\ originInput = ""
    /\ destinationInput = ""
    /\ isVoiceEnabled = TRUE
    /\ isLoading = FALSE
    /\ showRoutes = FALSE
    /\ watchIdRef = NullId
    /\ watches = [w \in WatchIds |-> Null]
    /\ effectPending = FALSE
    /\ mounted = TRUE
    /\ initPosPending = TRUE
    /\ search = EmptyBag
    /\ announced = <<>>
    /\ sinceReset = FALSE
    /\ soloSearch = FALSE

Init ==
    /\ PageInit
    /\ gwData = Null
    /\ gwResult = NotCalled

Next ==
    \/ \E text \in Addresses \cup {""} : TypeOrigin(text)
    \/ \E text \in Addresses \cup {""} : TypeDestination(text)
    \/ ClickSearch
    \/ PressEnter
    \/ \E r \in InFlight, data \in GeocodeResponses : GeocodeOriginAnswer(r, data)
    \/ \E r \in InFlight, data \in GeocodeResponses : GeocodeDestinationAnswer(r, data)
    \/ \E r \in InFlight, data \in PageDirectionsResponses : DirectionsAnswer(r, data)
    \/ \E k \in 1..MaxRoutes : ClickRoute(k)
    \/ ClickStart
    \/ ClickStop
    \/ toggleDarkMode
    \/ ToggleVoice
    \/ WatchEffect
    \/ \E w \in WatchIds, newLocation \in DeviceCoords : PositionUpdate(w, newLocation)
    \/ \E coords \in DeviceCoords : InitialPosition(coords)
    \/ Unmount

Spec == Init /\ [][Next]_vars

----------------------------------------------------------------------------
(* The gateway specification: one call of a gateway function on one answer  *)

GatewayInit ==
    /\ PageInit
    /\ gwData \in DirectionsResponses
    /\ gwResult = NotCalled

CallGetDirections ==
    /\ gwResult = NotCalled
    /\ gwResult' = [called |-> TRUE, op |-> "getDirections",
                     value |-> getDirections(gwData)]
    /\ UNCHANGED <<pageVars, gwData>>

GatewayNext == CallGetDirections

GatewaySpec == GatewayInit /\ [][GatewayNext]_vars

----------------------------------------------------------------------------
(* The gateway operations specification: one call of one of the three       *)
(* gateway functions on one answer of its fetch                             *)

GatewayOpsInit ==
    /\ PageInit
    /\ gwData \in DirectionsResponses \cup GeocodeResponses
                    \cup ReverseGeocodeResponses
    /\ gwResult = NotCalled

CallGeocodeAddress ==
    /\ gwResult = NotCalled
    /\ gwData \in GeocodeResponses \cup {NoFeaturesField}
    /\ gwResult' = [called |-> TRUE, op |-> "geocodeAddress",
                     value |-> geocodeAddress(gwData)]
    /\ UNCHANGED <<pageVars, gwData>>

CallReverseGeocode ==
    /\ gwResult = NotCalled
    /\ gwData \in ReverseGeocodeResponses
    /\ gwResult' = [called |-> TRUE, op |-> "reverseGeocode",
                     value |-> reverseGeocode(gwData)]
    /\ UNCHANGED <<pageVars, gwData>>

GatewayOpsNext ==
    \/ CallGetDirections
    \/ CallGeocodeAddress
    \/ CallReverseGeocode

GatewayOpsSpec == GatewayOpsInit /\ [][GatewayOpsNext]_vars

----------------------------------------------------------------------------
(* The formatter specification: one call of a formatter on one number       *)

FormatInit ==
    /\ PageInit
    /\ gwData \in 0..MaxQuantity
    /\ gwResult = NotCalled

CallFormatDistance ==
    /\ gwResult = NotCalled
    /\ gwResult' = [called |-> TRUE, op |-> "formatDistance",
                     value |-> formatDistance(gwData)]
    /\ UNCHANGED <<pageVars, gwData>>

CallFormatDuration ==
    /\ gwResult = NotCalled
    /\ gwResult' = [called |-> TRUE, op |-> "formatDuration",
                     value |-> formatDuration(gwData)]
    /\ UNCHANGED <<pageVars, gwData>>

FormatNext == CallFormatDistance \/ CallFormatDuration

FormatSpec == FormatInit /\ [][FormatNext]_vars

----------------------------------------------------------------------------
(* Vocabulary of the properties *)

\* handleStopNavigation runs: by the stop button, or by an arriving position
StopRuns ==
    \/ ClickStop
    \/ \E w \in WatchIds, newLocation \in DeviceCoords :
           PositionUpdate(w, newLocation) /\ Arrived(watches[w], newLocation)

\* routes are stored, one is selected, the session does not navigate
RouteSelection(s) ==
    Len(s.routes) > 0 /\ s.selectedRoute # Null /\ ~s.isNavigating

\* the six fields a reset clears hold their cleared values
SessionCleared(s) ==
    /\ s.origin = Null /\ s.destination = Null
    /\ s.routes = <<>> /\ s.selectedRoute = Null
    /\ s.isNavigating = FALSE /\ s.currentStepIndex = 0

\* the watches the browser holds
ActiveWatches == {w \in WatchIds : watches[w] # Null}

\* the requests of getDirections that have no answer yet
AwaitingDirections(b) ==
    BagCardinality([r \in {x \in BagToSet(b) : x.pc = "directions"} |-> b[r]])

----------------------------------------------------------------------------
(* C1 *)

\* C1, as claimed: whenever handleStopNavigation runs in a non-idle session
\* state, the resulting NavigationState is exactly the initial one, with
\* currentLocation null and isDarkMode false.
C1_StopYieldsInitialState ==
    [][(StopRuns /\ ~Idle(state)) => state' = InitialNavigationState]_vars

\* C1, amended: whenever handleStopNavigation runs in a non-idle session
\* state, origin, destination and selectedRoute are null, routes is empty,
\* isNavigating is false and currentStepIndex is 0 afterwards; isDarkMode keeps
\* its value, and currentLocation is the one the handler saw (the stop button
\* leaves it, an arriving position update has just stored the new location).
C1_StopClearsSession ==
    [][(StopRuns /\ ~Idle(state)) =>
          /\ SessionCleared(state')
          /\ state'.isDarkMode = state.isDarkMode
          /\ ClickStop => state'.currentLocation = state.currentLocation
          /\ \A w \in WatchIds, newLocation \in DeviceCoords :
                 PositionUpdate(w, newLocation)
                     => state'.currentLocation = newLocation]_vars

\* a stop has run and left a known location and the dark theme in place
C1_Witness ==
    /\ sinceReset /\ SessionCleared(state)
    /\ state.currentLocation # Null /\ state.isDarkMode

----------------------------------------------------------------------------
(* C2 *)

\* C2: a response of a search started before a reset that arrives after the
\* reset is ignored: as long as no search is triggered after the reset,
\* origin, destination and selectedRoute stay null and routes stays empty.
C2_StaleResponseIgnored ==
    sinceReset =>
        /\ state.origin = Null /\ state.destination = Null
        /\ state.routes = <<>> /\ state.selectedRoute = Null

----------------------------------------------------------------------------
(* C3 *)

\* C3: when the origin geocode or the destination geocode of a search comes
\* back absent, the search requests no directions and no field of
\* NavigationState changes, neither when the origin answer arrives nor when
\* the destination answer ends the search.
C3_FailedGeocodeWritesNothing ==
    [][\A r \in InFlight, data \in GeocodeResponses :
          /\ GeocodeOriginAnswer(r, data) =>
                /\ state' = state
                /\ AwaitingDirections(search') = AwaitingDirections(search)
          /\ (/\ GeocodeDestinationAnswer(r, data)
              /\ (r.originCoords = Null \/ geocodeAddress(data) = Null)) =>
                /\ state' = state
                /\ AwaitingDirections(search') = AwaitingDirections(search)
                /\ BagCardinality(search') = BagCardinality(search) - 1]_vars

\* the origin geocode of a search came back absent, nothing was written, and
\* the search awaits its destination geocode
C3_Witness ==
    /\ Idle(state)
    /\ \E r \in InFlight : r.pc = "geocodeDest" /\ r.originCoords = Null

----------------------------------------------------------------------------
(* C4 *)

----------------------------------------------------------------------------
(* C5 *)

\* C5: while navigating, a location update closer than 50 meters to the
\* destination performs the reset of an explicit stop (isNavigating false,
\* currentStepIndex 0, routes empty, selectedRoute, origin and destination
\* null, both input texts empty), and one at 50 meters or more changes
\* nothing but currentLocation.
C5_ArrivalResetsElseOnlyLocation ==
    [][\A w \in WatchIds, newLocation \in DeviceCoords :
          (/\ PositionUpdate(w, newLocation)
           /\ state.isNavigating /\ state.destination # Null) =>
             IF calculateDistance(newLocation, state.destination) < ArrivalRadiusMm
             THEN /\ SessionCleared(state')
                  /\ originInput' = "" /\ destinationInput' = ""
             ELSE /\ state' = [state EXCEPT !.currentLocation = newLocation]
                  /\ UNCHANGED <<originInput, destinationInput, showRoutes,
                                 isVoiceEnabled, isLoading>>]_vars

----------------------------------------------------------------------------
(* C6 *)

\* C6: the start action with a selected route sets isNavigating to true and
\* currentStepIndex to 0 and changes no other field of NavigationState; with
\* no selected route it changes nothing; it announces the first step's
\* instruction exactly when voice feedback is on and the selected route has a
\* first step, and announces nothing otherwise.
C6_StartNavigation ==
    [][ClickStart =>
          IF state.selectedRoute # Null
          THEN /\ state'.isNavigating = TRUE
               /\ state'.currentStepIndex = 0
               /\ state'.origin = state.origin
               /\ state'.destination = state.destination
               /\ state'.currentLocation = state.currentLocation
               /\ state'.routes = state.routes
               /\ state'.selectedRoute = state.selectedRoute
               /\ state'.isDarkMode = state.isDarkMode
               /\ IF isVoiceEnabled /\ Len(state.selectedRoute.steps) > 0
                  THEN announced' = <<state.selectedRoute.steps[1].instruction>>
                  ELSE announced' = <<>>
          ELSE state' = state /\ announced' = announced]_vars

\* navigation has just started and the first instruction was announced
C6_Witness ==
    /\ state.isNavigating /\ state.selectedRoute # Null
    /\ announced = <<"Siga em frente">>

----------------------------------------------------------------------------
(* C7 *)

\* C7: selecting the k-th route of the list sets selectedRoute to that route
\* and leaves origin, destination, currentLocation, routes, isNavigating,
\* currentStepIndex and isDarkMode as they were.
C7_SelectRouteOnly ==
    [][\A k \in 1..MaxRoutes :
          ClickRoute(k) =>
             /\ state'.selectedRoute = state.routes[k]
             /\ state'.origin = state.origin
             /\ state'.destination = state.destination
             /\ state'.currentLocation = state.currentLocation
             /\ state'.routes = state.routes
             /\ state'.isNavigating = state.isNavigating
             /\ state'.currentStepIndex = state.currentStepIndex
             /\ state'.isDarkMode = state.isDarkMode]_vars

\* the second route of the list has been selected
C7_Witness ==
    /\ Len(state.routes) >= 2
    /\ state.selectedRoute = state.routes[2]
    /\ ~state.isNavigating

----------------------------------------------------------------------------
(* C8 *)

\* what the full reset of the stop button leaves
FullReset ==
    /\ SessionCleared(state')
    /\ showRoutes' = FALSE
    /\ originInput' = "" /\ destinationInput' = ""

\* C8, as claimed: whenever the page takes user events, the stop action is
\* enabled in every Route-Selection state and in every Navigating state, and
\* it performs the full reset.
C8_StopFromRouteSelectionOrNavigating ==
    /\ []((UserEvent /\ (RouteSelection(state) \/ state.isNavigating))
             => ENABLED ClickStop)
    /\ [][ClickStop => FullReset]_vars

\* C8, amended: whenever the page takes user events, the stop action is
\* enabled in every Navigating state and in no other state (in
\* Route-Selection the button is the search button); from Navigating it
\* performs the full reset.
C8_StopOnlyWhileNavigating ==
    /\ [](UserEvent => (ENABLED ClickStop <=> state.isNavigating))
    /\ [][ClickStop => FullReset]_vars

\* the stop button has reset a session: no position was ever stored, so the
\* reset is not an arrival
C8_Witness ==
    /\ sinceReset /\ SessionCleared(state)
    /\ state.currentLocation = Null
    /\ originInput = "" /\ destinationInput = ""

----------------------------------------------------------------------------
(* C9 *)

\* C9: the browser never holds two position watches (a replaced watch is
\* cleared before its successor is registered); after the unmount it holds
\* none; and once the watch effect has run it holds none unless the session
\* navigates, and then only the one the ref names, registered for the route
\* now selected.
C9_WatchReleased ==
    /\ Cardinality(ActiveWatches) <= 1
    /\ ~mounted => ActiveWatches = {}
    /\ (mounted /\ ~effectPending /\ ~state.isNavigating) => ActiveWatches = {}
    /\ (mounted /\ ~effectPending) =>
          \A w \in ActiveWatches :
              /\ w = watchIdRef
              /\ watches[w].selectedRoute = state.selectedRoute

\* a watch was registered, the session was reset, the effect has run and
\* cleared it
C9_Witness ==
    /\ mounted /\ ~effectPending /\ sinceReset
    /\ watchIdRef = ClearedId /\ ActiveWatches = {}

----------------------------------------------------------------------------
(* C10 *)

\* the routes of a directions answer, none when it failed or carries none
AnswerRoutes(data) == IF "routes" \in DOMAIN data THEN data.routes ELSE <<>>

\* C10: on an answer with N >= 1 routes getDirections returns N Route
\* entities in the order of the answer, the i-th (from 0) with id "route-i",
\* so with pairwise distinct ids, and with isAlternative false exactly at
\* index 0; on an answer without routes it returns the empty sequence.
C10_DirectionsMapping ==
    gwResult.called =>
        LET R == gwResult.value
            A == AnswerRoutes(gwData)
        IN  /\ Len(R) = Len(A)
            /\ \A i \in 1..Len(A) :
                  /\ R[i].id = "route-" \o ToString(i - 1)
                  /\ R[i].isAlternative = (i # 1)
                  /\ R[i].distance = A[i].distance
                  /\ R[i].duration = A[i].duration
                  /\ R[i].geometry = A[i].geometry
                  /\ Len(R[i].steps) = Len(A[i].legs[1].steps)
                  /\ \A k \in 1..Len(R[i].steps) :
                        R[i].steps[k].instruction
                            = A[i].legs[1].steps[k].maneuver.instruction
            /\ \A i, j \in 1..Len(R) : i # j => R[i].id # R[j].id

\* getDirections has mapped an answer of two routes that differ
C10_Witness ==
    /\ gwResult.called
    /\ Len(gwResult.value) >= 2
    /\ gwResult.value[1].steps # gwResult.value[2].steps

----------------------------------------------------------------------------
(* C11 *)

\* C11: every Route that getDirections returns has a non-empty steps
\* sequence, whatever the answer of the directions service was, also one
\* whose first leg carries an empty steps array.
C11_StepsNeverEmpty ==
    gwResult.called =>
        \A i \in 1..Len(gwResult.value) : Len(gwResult.value[i].steps) > 0

----------------------------------------------------------------------------
(* C12 *)

\* the request failed: fetch or response.json() threw, or the body is an
\* error body that carries neither routes nor features
RequestFailed(data) ==
    \/ data = FetchFailed
    \/ ("routes" \notin DOMAIN data /\ "features" \notin DOMAIN data)

\* the request succeeded and matched nothing
NoMatch(data) ==
    \/ ("routes" \in DOMAIN data /\ data.routes = <<>>)
    \/ ("features" \in DOMAIN data /\ data.features = <<>>)

\* C12: no gateway function fails visibly: when its request failed or
\* matched nothing, geocodeAddress returns null, reverseGeocode returns the
\* sentinel string and getDirections returns the empty sequence, so the
\* caller sees one value for 'request failed' and for 'no result'.
C12_FailuresAreBenign ==
    (gwResult.called /\ (RequestFailed(gwData) \/ NoMatch(gwData))) =>
        /\ gwResult.op = "geocodeAddress" => gwResult.value = Null
        /\ gwResult.op = "reverseGeocode" => gwResult.value = UnknownLocation
        /\ gwResult.op = "getDirections" => gwResult.value = <<>>

\* reverseGeocode was called, its fetch threw, and it returned the sentinel
C12_Witness ==
    /\ gwResult.called /\ gwResult.op = "reverseGeocode"
    /\ gwData = FetchFailed
    /\ gwResult.value = UnknownLocation

----------------------------------------------------------------------------
(* C13 *)

\* C13: currentStepIndex is 0 in every reachable state: no position update
\* and no other handler advances it.
C13_StepIndexStaysZero == state.currentStepIndex = 0

\* the session navigates and a position update of the watch, not the
\* mount-time position, has stored a location
C13_Witness ==
    /\ state.isNavigating /\ initPosPending
    /\ state.currentLocation # Null
    /\ state.currentStepIndex = 0

----------------------------------------------------------------------------
(* C14 *)

\* the invocations of the bag b that wait at the await pc
WaitingAt(b, pc) ==
    BagCardinality([r \in {x \in BagToSet(b) : x.pc = pc} |-> b[r]])

\* The requests the invocations in flight stand for at most: one that waits
\* for its origin geocode has that request out and may issue two more, one
\* that waits for its destination geocode may issue one more, one that waits
\* for directions none.
RequestBudget(b) ==
    3 * WaitingAt(b, "geocodeOrigin") + 2 * WaitingAt(b, "geocodeDest")
        + WaitingAt(b, "directions")

\* C14: nothing is retried.  A search trigger adds one invocation with a
\* budget of three requests (origin geocode, destination geocode,
\* directions); every other step that changes the requests in flight uses
\* the budget up and never refills it: an answer is followed by the next
\* request of its invocation or by none, a failed search gives its budget
\* back, and only a new trigger brings new requests.
C14_NothingRetried ==
    [][IF ClickSearch \/ PressEnter
       THEN RequestBudget(search') = RequestBudget(search) + 3
       ELSE /\ RequestBudget(search') <= RequestBudget(search)
            /\ search' # search => RequestBudget(search') < RequestBudget(search)
      ]_vars

\* a search that began in Idle has failed and ended: nothing was written and
\* no request is in flight
C14_Witness ==
    /\ mounted /\ soloSearch /\ ~sinceReset
    /\ search = EmptyBag /\ ~isLoading
    /\ Idle(state)

----------------------------------------------------------------------------
(* C15 *)

\* C15: for a whole number s >= 0 of seconds formatDuration(s) is "Hh Mmin"
\* with H = floor(s / 3600) and M = floor((s mod 3600) / 60) when s >= 3600,
\* and "M min" with M = floor(s / 60) otherwise; formatDuration(59) is
\* "0 min", formatDuration(90) is "1 min", formatDuration(3661) is "1h 1min".
C15_FormatDuration ==
    (gwResult.called /\ gwResult.op = "formatDuration") =>
        LET s == gwData
        IN  /\ s >= 3600 =>
                  gwResult.value = ToString(s \div 3600) \o "h "
                                      \o ToString((s % 3600) \div 60) \o "min"
            /\ s < 3600 => gwResult.value = ToString(s \div 60) \o " min"
            /\ s = 59 => gwResult.value = "0 min"
            /\ s = 90 => gwResult.value = "1 min"
            /\ s = 3661 => gwResult.value = "1h 1min"

\* formatDuration has formatted 3661 seconds
C15_Witness ==
    /\ gwResult.called /\ gwResult.op = "formatDuration"
    /\ gwData = 3661 /\ gwResult.value = "1h 1min"

----------------------------------------------------------------------------
(* C16 *)

\* C16: for a whole number m >= 0 of meters formatDistance(m) is "m m" when
\* m < 1000, and otherwise m / 1000 rounded to one decimal (the nearest
\* tenth, a half upwards) followed by " km"; formatDistance(999) is "999 m",
\* formatDistance(1000) is "1.0 km", formatDistance(12345) is "12.3 km".
C16_FormatDistance ==
    (gwResult.called /\ gwResult.op = "formatDistance") =>
        LET m == gwData
            tenths == (m + 50) \div 100
        IN  /\ m < 1000 => gwResult.value = ToString(m) \o " m"
            /\ m >= 1000 =>
                  gwResult.value = ToString(tenths \div 10) \o "."
                                      \o ToString(tenths % 10) \o " km"
            /\ m = 999 => gwResult.value = "999 m"
            /\ m = 1000 => gwResult.value = "1.0 km"
            /\ m = 12345 => gwResult.value = "12.3 km"

----------------------------------------------------------------------------
(* C17 *)

\* C17: when a position update ends the navigation by arrival, the arrival
\* is announced exactly if the voice toggle is on at that moment, also after
\* the user switched it since navigation started.
C17_ArrivalVoiceIsCurrent ==
    [][\A w \in WatchIds, newLocation \in DeviceCoords :
          (/\ PositionUpdate(w, newLocation)
           /\ state.isNavigating /\ ~state'.isNavigating) =>
             ((announced' = <<ArrivalText>>) <=> isVoiceEnabled)]_vars

----------------------------------------------------------------------------
(* C18 *)

\* C18: in every reachable state isNavigating implies that selectedRoute is
\* not null, also when a search triggered before the start delivers its
\* directions while the session navigates.
C18_NavigatingHasRoute == state.isNavigating => state.selectedRoute # Null

----------------------------------------------------------------------------
(* C19 *)

\* C19: a non-empty routes list is the one requested for the stored origin
\* and destination, also when searches overlap: the directions answer that
\* stores a non-empty list belongs to a request for the endpoints stored
\* then, and while a non-empty list stays stored the endpoints stay.
C19_RoutesMatchEndpoints ==
    [][/\ \A r \in InFlight, data \in PageDirectionsResponses :
             (/\ mounted /\ DirectionsAnswer(r, data)
              /\ state'.routes # <<>>) =>
                /\ state'.origin = r.originCoords
                /\ state'.destination = r.destCoords
       /\ (state.routes # <<>> /\ state'.routes = state.routes
              /\ ~(\E r \in InFlight, data \in PageDirectionsResponses :
                      DirectionsAnswer(r, data))) =>
             /\ state'.origin = state.origin
             /\ state'.destination = state.destination]_vars

----------------------------------------------------------------------------
(* C20 *)

\* C20: in every reachable state selectedRoute is null or an element of
\* routes, and it is null whenever routes is empty.
C20_SelectedRouteInList ==
    /\ state.selectedRoute # Null =>
          \E k \in 1..Len(state.routes) : state.routes[k] = state.selectedRoute
    /\ state.routes = <<>> => state.selectedRoute = Null

\* the session navigates on the second route of its list
C20_Witness ==
    /\ state.isNavigating
    /\ Len(state.routes) >= 2 /\ state.selectedRoute = state.routes[2]

----------------------------------------------------------------------------
(* C21 *)

\* C21: while the component is mounted, isLoading is true in every state in
\* which at least one search is in flight, and false in every state in which
\* every started search has finished.
C21_LoadingWhileInFlight ==
    mounted => (isLoading <=> search # EmptyBag)

====
